---- MODULE Spec2Model ----
(***************************************************************************)
(* Realtime relay of src/server.js (the socket.io server, lines 279-752):  *)
(* the presence registry connectedUsers, the User and Chat collections,    *)
(* and the connection event handlers user-login, send-message,             *)
(* mark-as-read, get-user-messages, typing and disconnect.                 *)
(*                                                                         *)
(* Every `await` of a handler is a suspension point: a handler is a task   *)
(* whose pc names the database call it is waiting for.  A database call    *)
(* takes effect and resumes its handler in one step (or fails and runs the *)
(* handler's catch block); the synchronous code up to the next await is    *)
(* part of the same step, as on the single-threaded event loop.            *)
(***************************************************************************)
EXTENDS Naturals, Sequences, FiniteSets, TLC

(* ---- bounds of the model ---- *)
MaxSockets     == 2    \* connections ever opened
MaxLogins      == 2    \* user-login events of a run
MaxSends       == 2    \* send-message events of a run
MaxReads       == 2    \* mark-as-read events of a run
MaxDisconnects == 2    \* disconnect events of a run
MaxFailures    == 1    \* database calls that fail in a run

Sockets == 1 .. MaxSockets

(* ---- the clients' payloads ---- *)
\* userId of userData / senderId, receiverId of a message
Ids == {"u1", "u2", "a1"}

\* role of userData (line 394); 'user' is also the default role
RoleOf == [i \in Ids |-> IF i = "a1" THEN "admin" ELSE "user"]

\* the room name `user_${userId}` (lines 422, 431, 460, 569)
UserRoom(id) == "user_" \o id

AdminRoom == "admin_room"

\* senderId of the automatic welcome message (line 432)
AdminSystem == "admin_system"

NoId == "-"

\* connectedUsers.get(k) === undefined
None == [socketId |-> 0, role |-> NoId]

VARIABLES
  conn,            \* socket -> "new" | "open" | "closed"
  rooms,           \* socket -> rooms the socket has joined (socket.join)
  connectedUsers,  \* the Map of line 386: userId -> {socketId, user} or None
  users,           \* the User collection, one document per identity
  chats,           \* the Chat collection, in order of insertion; index = _id
  origin,          \* per chat document: the socket whose handler created it,
                   \* whether its receiver was in connectedUsers when it was
                   \* created, whether it was pushed to a connection of its
                   \* receiver, and how many mark-as-read events have named it
  out,             \* the events emitted by the last step, in order; socket 0
                   \* is the console (the log line of the disconnect handler)
  tasks,           \* handlers suspended at an await, and pending timers
  count,           \* message timestamps read so far, per kind
  budget,          \* client events and database failures the run may still see
  crashed,         \* the process died of an unhandled rejection
  concurrent       \* the identities that had user-login handlers in progress
                   \* on two connections at the same time

vars == <<conn, rooms, connectedUsers, users, chats, origin, out, tasks,
          count, budget, crashed, concurrent>>

(* ---- events on the wire ---- *)
\* rcv is the receiverId of the client event that caused the emit
Ev(type, id, flag, msg, hist, rcv) ==
  [type |-> type, id |-> id, flag |-> flag, msg |-> msg, hist |-> hist,
   rcv |-> rcv]

\* the sockets of S in increasing order
RECURSIVE SeqOf(_)
SeqOf(S) ==
  IF S = {} THEN <<>>
  ELSE LET s == CHOOSE x \in S : \A y \in S : x <= y
       IN  <<s>> \o SeqOf(S \ {s})

\* emit e to every connected socket of S; a closed socket gets nothing
Emit(S, e) ==
  LET T == SeqOf({s \in S : conn[s] = "open"})
  IN  [i \in 1 .. Len(T) |-> [to |-> T[i], ev |-> e]]

\* io.to(room): the connected sockets that joined the room
Room(r, rms) == {s \in Sockets : conn[s] = "open" /\ r \in rms[s]}

(* ---- Chat.find({$or: [...]}).sort({timestamp: 1}) ---- *)
RECURSIVE SortByTimestamp(_)
SortByTimestamp(S) ==
  IF S = {} THEN <<>>
  ELSE LET m == CHOOSE x \in S : \A y \in S :
                   \/ chats[x].timestamp < chats[y].timestamp
                   \/ chats[x].timestamp = chats[y].timestamp /\ x <= y
       IN  <<m>> \o SortByTimestamp(S \ {m})

\* the filter without its receiverId clause
MatchesUser_NoReceiver(c, userId) ==
  \/ c.roomId = UserRoom(userId)
  \/ c.senderId = userId

\* the $or filter of lines 458-464 and 567-573
MatchesUser(c, userId) ==
  \/ c.roomId = UserRoom(userId)
  \/ c.senderId = userId
  \/ c.receiverId = userId

FindUserMessages(userId) ==
  SortByTimestamp({m \in 1 .. Len(chats) : MatchesUser(chats[m], userId)})

(* ---- tasks ---- *)
Task(kind, sock, id, role, rcv, room, pc, at, msg, after) ==
  [kind |-> kind, sock |-> sock, id |-> id, role |-> role, rcv |-> rcv,
   room |-> room, pc |-> pc, at |-> at, msg |-> msg, after |-> after]

\* new Date() of a message: the clock ticks with every message timestamp read
Now == 1 + count.send + count.welcome

Bump(k) == [count EXCEPT ![k] = @ + 1]

Spend(k) == [budget EXCEPT ![k] = @ - 1]

\* The mixes of client events and database failures a run is drawn from:
\* presence (logins, disconnects, typing, failures), messaging with a
\* history fetch, one sender with reads, a send with a disconnect, and a
\* send with a failure.
Profile(login, send, read, typing, fetch, disconnect, failure) ==
  [login |-> login, send |-> send, read |-> read, typing |-> typing,
   fetch |-> fetch, disconnect |-> disconnect, failure |-> failure]

Profiles ==
  { Profile(MaxLogins, 0, 0, 1, 0, MaxDisconnects, MaxFailures),
    Profile(MaxLogins, 1, 0, 0, 1, 0, 0),
    Profile(1, MaxSends, MaxReads, 0, 0, 0, 0),
    Profile(MaxLogins, 1, 0, 0, 0, 1, 0),
    Profile(MaxLogins, 1, 0, 0, 0, 0, MaxFailures) }

\* the identity a connection has logged in as
LoggedIn(s, id) == UserRoom(id) \in rooms[s]

Init ==
  /\ conn = [s \in Sockets |-> "new"]
  /\ rooms = [s \in Sockets |-> {}]
  /\ connectedUsers = [i \in Ids |-> None]
  /\ users = [i \in Ids |-> [exists |-> FALSE, role |-> "user", online |-> FALSE,
                             socketId |-> 0, lastSeen |-> 0]]
  /\ chats = <<>>
  /\ origin = <<>>
  /\ out = <<>>
  /\ tasks = {}
  /\ count = [send |-> 0, welcome |-> 0]
  /\ budget \in Profiles
  /\ crashed = FALSE
  /\ concurrent = {}

(* io.on('connection'): sockets are numbered in the order they connect *)
Connect(s) ==
  /\ ~crashed
  /\ conn[s] = "new"
  /\ \A r \in Sockets : r < s => conn[r] # "new"
  /\ conn' = [conn EXCEPT ![s] = "open"]
  /\ out' = <<>>
  /\ UNCHANGED <<rooms, connectedUsers, users, chats, origin, tasks, count, budget, crashed, concurrent>>

(* ---- user-login (lines 392-474) ---- *)

\* The event arrives; the handler suspends at User.findOneAndUpdate.  A
\* connection logs in as one identity, and again only after a login-error.
\* after: the connections of this identity whose disconnect handler is
\* still waiting for its update when the login arrives.  The identity is
\* noted in concurrent when a login of it on another connection is still in
\* progress.
Login(s, id) ==
  /\ ~crashed
  /\ conn[s] = "open"
  /\ \A x \in tasks : ~(x.kind = "login" /\ x.sock = s)
  /\ \A i \in Ids : ~LoggedIn(s, i)
  /\ budget.login > 0
  /\ tasks' = tasks \cup
       {Task("login", s, id, RoleOf[id], NoId, NoId, "update", 0, 0,
             {d.sock : d \in {x \in tasks : x.kind = "disconnect" /\ x.id = id}})}
  /\ concurrent' = IF \E x \in tasks : x.kind = "login" /\ x.id = id /\ x.sock # s
                   THEN concurrent \cup {id}
                   ELSE concurrent
  /\ budget' = Spend("login")
  /\ out' = <<>>
  /\ UNCHANGED <<conn, rooms, connectedUsers, users, chats, origin, count, crashed>>

\* the upsert completes: registry, rooms, welcome timer, status broadcast;
\* the handler suspends again at Chat.find
LoginUpdated(t) ==
  /\ ~crashed
  /\ t \in tasks /\ t.kind = "login" /\ t.pc = "update"
  /\ users' = [users EXCEPT ![t.id] =
       [exists |-> TRUE, role |-> t.role, online |-> TRUE,
        socketId |-> t.sock, lastSeen |-> @.lastSeen + 1]]
  /\ connectedUsers' = [connectedUsers EXCEPT ![t.id] =
       [socketId |-> t.sock, role |-> t.role]]
  /\ rooms' = [rooms EXCEPT ![t.sock] =
       @ \cup {UserRoom(t.id)} \cup (IF t.role = "user" THEN {AdminRoom} ELSE {})]
  /\ tasks' = (tasks \ {t})
       \cup {[t EXCEPT !.pc = "find"]}
       \cup (IF t.role = "user"
             THEN {Task("welcome", t.sock, t.id, "admin", t.id, UserRoom(t.id),
                        "timer", 0, 0, {})}
             ELSE {})
  /\ out' = IF t.role = "user"
            THEN Emit(Room(AdminRoom, rooms'),
                      Ev("user-status-changed", t.id, TRUE, 0, <<>>, NoId))
            ELSE <<>>
  /\ UNCHANGED <<conn, chats, origin, count, budget, crashed, concurrent>>

\* Chat.find completes: the history is emitted to the socket
LoginFound(t) ==
  /\ ~crashed
  /\ t \in tasks /\ t.kind = "login" /\ t.pc = "find"
  /\ out' = Emit({t.sock},
       Ev("previous-messages", t.id, FALSE, 0, FindUserMessages(t.id), NoId))
  /\ tasks' = tasks \ {t}
  /\ UNCHANGED <<conn, rooms, connectedUsers, users, chats, origin, count, budget, crashed, concurrent>>

\* either database call rejects: the catch block emits login-error
LoginFailed(t) ==
  /\ ~crashed
  /\ t \in tasks /\ t.kind = "login"
  /\ budget.failure > 0
  /\ out' = Emit({t.sock}, Ev("login-error", t.id, FALSE, 0, <<>>, NoId))
  /\ tasks' = tasks \ {t}
  /\ budget' = Spend("failure")
  /\ UNCHANGED <<conn, rooms, connectedUsers, users, chats, origin, count, crashed, concurrent>>

\* the 2 s timer fires and Chat.create(welcomeMessage) completes
WelcomeCreated(t) ==
  /\ ~crashed
  /\ t \in tasks /\ t.kind = "welcome"
  /\ chats' = Append(chats,
       [roomId |-> t.room, senderId |-> AdminSystem, senderRole |-> "admin",
        receiverId |-> t.id, read |-> FALSE, delivered |-> FALSE,
        timestamp |-> Now])
  /\ origin' = Append(origin,
       [sock |-> t.sock, live |-> connectedUsers[t.id] # None,
        pushed |-> conn[t.sock] = "open", reads |-> 0])
  /\ out' = Emit({t.sock},
       Ev("new-message", AdminSystem, FALSE, Len(chats) + 1, <<>>, t.id))
  /\ tasks' = tasks \ {t}
  /\ count' = Bump("welcome")
  /\ UNCHANGED <<conn, rooms, connectedUsers, users, budget, crashed, concurrent>>

\* Chat.create rejects inside the timer callback: nothing catches it
WelcomeFailed(t) ==
  /\ ~crashed
  /\ t \in tasks /\ t.kind = "welcome"
  /\ budget.failure > 0
  /\ crashed' = TRUE
  /\ tasks' = tasks \ {t}
  /\ budget' = Spend("failure")
  /\ out' = <<>>
  /\ UNCHANGED <<conn, rooms, connectedUsers, users, chats, origin, count, concurrent>>

(* ---- send-message (lines 477-537) ---- *)

\* the conversation room a client names: that of the user of the pair
RoomFor(sender, rcv) ==
  IF RoleOf[sender] = "user" THEN UserRoom(sender) ELSE UserRoom(rcv)

\* The event arrives on the connection of the sender; chatMessage takes its
\* timestamp and the handler suspends at Chat.create.  The receiver is any
\* identity, the sender's own included: nothing in the handler looks at the
\* pair of roles or compares the two ids.
SendMessage(s, sender, rcv) ==
  /\ ~crashed
  /\ conn[s] = "open"
  /\ LoggedIn(s, sender)
  /\ budget.send > 0
  /\ tasks' = tasks \cup
       {Task("send", s, sender, RoleOf[sender], rcv, RoomFor(sender, rcv),
             "create", Now, 0, {})}
  /\ count' = Bump("send")
  /\ budget' = Spend("send")
  /\ out' = <<>>
  /\ UNCHANGED <<conn, rooms, connectedUsers, users, chats, origin, crashed, concurrent>>

\* the emits of lines 513-527 for the saved message m
Route(t, m) ==
  LET e == Ev("new-message", t.id, FALSE, m, <<>>, t.rcv)
  IN  IF t.role = "user"
      THEN Emit(Room(AdminRoom, rooms), e) \o Emit({t.sock}, e)
      ELSE (IF connectedUsers[t.rcv] # None
            THEN Emit({connectedUsers[t.rcv].socketId}, e)
            ELSE <<>>)
           \o Emit({t.sock}, e)

\* Chat.create completes: the message is routed, marked delivered in memory
\* and the handler suspends at savedMessage.save()
SendCreated(t) ==
  /\ ~crashed
  /\ t \in tasks /\ t.kind = "send" /\ t.pc = "create"
  /\ chats' = Append(chats,
       [roomId |-> t.room, senderId |-> t.id, senderRole |-> t.role,
        receiverId |-> t.rcv, read |-> FALSE, delivered |-> FALSE,
        timestamp |-> t.at])
  /\ out' = Route(t, Len(chats) + 1)
  /\ origin' = Append(origin,
       [sock |-> t.sock, live |-> connectedUsers[t.rcv] # None,
        pushed |-> \E i \in 1 .. Len(out') : LoggedIn(out'[i].to, t.rcv),
        reads |-> 0])
  /\ tasks' = (tasks \ {t}) \cup {[t EXCEPT !.pc = "save", !.msg = Len(chats) + 1]}
  /\ UNCHANGED <<conn, rooms, connectedUsers, users, count, budget, crashed, concurrent>>

\* save() writing the whole in-memory document, read: false included
SendSaved_WholeDocument(t) ==
  /\ ~crashed
  /\ t \in tasks /\ t.kind = "send" /\ t.pc = "save"
  /\ chats' = [chats EXCEPT ![t.msg].delivered = TRUE, ![t.msg].read = FALSE]
  /\ out' = <<>>
  /\ tasks' = tasks \ {t}
  /\ UNCHANGED <<conn, rooms, connectedUsers, users, origin, count, budget, crashed, concurrent>>

\* savedMessage.save() completes: only the modified path delivered is written
SendSaved(t) ==
  /\ ~crashed
  /\ t \in tasks /\ t.kind = "send" /\ t.pc = "save"
  /\ chats' = [chats EXCEPT ![t.msg].delivered = TRUE]
  /\ out' = <<>>
  /\ tasks' = tasks \ {t}
  /\ UNCHANGED <<conn, rooms, connectedUsers, users, origin, count, budget, crashed, concurrent>>

\* a catch block that routes the unsaved chatMessage before the error
SendFailed_Routing(t) ==
  /\ ~crashed
  /\ t \in tasks /\ t.kind = "send"
  /\ budget.failure > 0
  /\ out' = Route(t, Len(chats) + 1)
            \o Emit({t.sock}, Ev("message-error", t.id, FALSE, t.msg, <<>>, t.rcv))
  /\ tasks' = tasks \ {t}
  /\ budget' = Spend("failure")
  /\ UNCHANGED <<conn, rooms, connectedUsers, users, chats, origin, count, crashed, concurrent>>

\* Chat.create or save rejects: the catch block emits message-error
SendFailed(t) ==
  /\ ~crashed
  /\ t \in tasks /\ t.kind = "send"
  /\ budget.failure > 0
  /\ out' = Emit({t.sock}, Ev("message-error", t.id, FALSE, t.msg, <<>>, t.rcv))
  /\ tasks' = tasks \ {t}
  /\ budget' = Spend("failure")
  /\ UNCHANGED <<conn, rooms, connectedUsers, users, chats, origin, count, crashed, concurrent>>

(* ---- mark-as-read (lines 540-549) ---- *)

\* Chat.updateMany({_id: {$in: messageIds}}, {$set: {read: true}})
UpdateMany(docs, messageIds) ==
  [m \in 1 .. Len(docs) |->
     IF m \in messageIds THEN [docs[m] EXCEPT !.read = TRUE] ELSE docs[m]]

\* an update that flips the read flag of the named messages
MarkAsRead_Toggle(s, messageIds) ==
  /\ ~crashed
  /\ conn[s] = "open"
  /\ budget.read > 0
  /\ chats' = [m \in 1 .. Len(chats) |->
       IF m \in messageIds THEN [chats[m] EXCEPT !.read = ~@] ELSE chats[m]]
  /\ origin' = [m \in 1 .. Len(origin) |->
       IF m \in messageIds THEN [origin[m] EXCEPT !.reads = @ + 1] ELSE origin[m]]
  /\ budget' = Spend("read")
  /\ out' = <<>>
  /\ UNCHANGED <<conn, rooms, connectedUsers, users, tasks, count, crashed, concurrent>>

\* The handler takes the ids from any connection, logged in or not, and asks
\* nothing about whose messages they are.
MarkAsRead(s, messageIds) ==
  /\ ~crashed
  /\ conn[s] = "open"
  /\ budget.read > 0
  /\ chats' = UpdateMany(chats, messageIds)
  /\ origin' = [m \in 1 .. Len(origin) |->
       IF m \in messageIds THEN [origin[m] EXCEPT !.reads = @ + 1] ELSE origin[m]]
  /\ budget' = Spend("read")
  /\ out' = <<>>
  /\ UNCHANGED <<conn, rooms, connectedUsers, users, tasks, count, crashed, concurrent>>

(* ---- get-user-messages (lines 565-579) ---- *)
GetUserMessages(s, userId) ==
  /\ ~crashed
  /\ conn[s] = "open"
  /\ LoggedIn(s, userId)
  /\ budget.fetch > 0
  /\ out' = Emit({s}, Ev("user-messages", userId, FALSE, 0, FindUserMessages(userId), NoId))
  /\ budget' = Spend("fetch")
  /\ UNCHANGED <<conn, rooms, connectedUsers, users, chats, origin, tasks, count, crashed, concurrent>>

(* ---- typing (lines 582-594) ---- *)
Typing(s, userId, receiverId, isTyping) ==
  /\ ~crashed
  /\ conn[s] = "open"
  /\ LoggedIn(s, userId)
  /\ budget.typing > 0
  /\ out' = IF connectedUsers[receiverId] # None
            THEN Emit({connectedUsers[receiverId].socketId},
                      Ev("user-typing", userId, isTyping, 0, <<>>, receiverId))
            ELSE <<>>
  /\ budget' = Spend("typing")
  /\ UNCHANGED <<conn, rooms, connectedUsers, users, chats, origin, tasks, count, crashed, concurrent>>

(* ---- disconnect (lines 597-632) ---- *)

\* the entry looked up by the identity of the connection, whatever its handle
EntriesOf_ByLogin(s) ==
  {id \in Ids : connectedUsers[id] # None /\ LoggedIn(s, id)}

\* the entries of connectedUsers whose socketId is this socket's (line 602)
EntriesOf(s) == {id \in Ids : connectedUsers[id].socketId = s}

\* console.log(`User disconnected: ${socket.id}`, name || 'Unknown')
LogDisconnected(s, name) ==
  <<[to |-> 0, ev |-> Ev("log-disconnected", name, FALSE, s, <<>>, NoId)]>>

\* The transport closes the socket and the handler runs: the entry of the
\* socket is deleted and the handler suspends at User.findOneAndUpdate; with
\* no entry the handler logs 'Unknown' and is done.  A connection logs in as
\* one identity, so at most one entry is the socket's and the loop's break
\* after the first one skips nothing.
Disconnect(s) ==
  /\ ~crashed
  /\ conn[s] = "open"
  /\ budget.disconnect > 0
  /\ budget' = Spend("disconnect")
  /\ conn' = [conn EXCEPT ![s] = "closed"]
  /\ IF EntriesOf(s) # {}
     THEN LET userId == CHOOSE id \in EntriesOf(s) : TRUE
          IN  /\ connectedUsers' = [connectedUsers EXCEPT ![userId] = None]
              /\ tasks' = tasks \cup
                   {Task("disconnect", s, userId, connectedUsers[userId].role,
                         NoId, NoId, "update", 0, 0, {})}
              /\ out' = <<>>
     ELSE /\ out' = LogDisconnected(s, "Unknown")
          /\ UNCHANGED <<connectedUsers, tasks>>
  /\ UNCHANGED <<rooms, users, chats, origin, count, crashed, concurrent>>

\* the update completes: the status is broadcast to admin_room
DisconnectUpdated(t) ==
  /\ ~crashed
  /\ t \in tasks /\ t.kind = "disconnect"
  /\ users' = [users EXCEPT ![t.id] =
       IF @.exists THEN [@ EXCEPT !.online = FALSE, !.lastSeen = @ + 1] ELSE @]
  /\ out' = (IF t.role = "user"
             THEN Emit(Room(AdminRoom, rooms),
                       Ev("user-status-changed", t.id, FALSE, 0, <<>>, NoId))
             ELSE <<>>)
            \o LogDisconnected(t.sock, t.id)
  /\ tasks' = tasks \ {t}
  /\ UNCHANGED <<conn, rooms, connectedUsers, chats, origin, count, budget, crashed, concurrent>>

\* the update rejects: the handler has no try/catch, the rejection is unhandled
DisconnectFailed(t) ==
  /\ ~crashed
  /\ t \in tasks /\ t.kind = "disconnect"
  /\ budget.failure > 0
  /\ crashed' = TRUE
  /\ tasks' = tasks \ {t}
  /\ budget' = Spend("failure")
  /\ out' = <<>>
  /\ UNCHANGED <<conn, rooms, connectedUsers, users, chats, origin, count, concurrent>>

Next ==
  \/ \E s \in Sockets : Connect(s)
  \/ \E s \in Sockets, id \in Ids : Login(s, id)
  \/ \E t \in tasks : LoginUpdated(t)
  \/ \E t \in tasks : LoginFound(t)
  \/ \E t \in tasks : LoginFailed(t)
  \/ \E t \in tasks : WelcomeCreated(t)
  \/ \E t \in tasks : WelcomeFailed(t)
  \/ \E s \in Sockets, a \in Ids, b \in Ids : SendMessage(s, a, b)
  \/ \E t \in tasks : SendCreated(t)
  \/ \E t \in tasks : SendSaved(t)
  \/ \E t \in tasks : SendFailed(t)
  \/ \E s \in Sockets, m \in 1 .. Len(chats) : MarkAsRead(s, {m})
  \/ \E s \in Sockets, id \in Ids : GetUserMessages(s, id)
  \/ \E s \in Sockets, a \in Ids, b \in Ids, f \in BOOLEAN : Typing(s, a, b, f)
  \/ \E s \in Sockets : Disconnect(s)
  \/ \E t \in tasks : DisconnectUpdated(t)
  \/ \E t \in tasks : DisconnectFailed(t)

Spec == Init /\ [][Next]_vars

(***************************************************************************)
(* Two identities in conversation: the state after u1 has logged in on     *)
(* connection 1 and a second identity on connection 2, both login handlers *)
(* and welcome timers done, and from there send-message events only.       *)
(***************************************************************************)

\* the welcome message of a user (lines 430-440) as stored
WelcomeDoc(id, at) ==
  [roomId |-> UserRoom(id), senderId |-> AdminSystem, senderRole |-> "admin",
   receiverId |-> id, read |-> FALSE, delivered |-> FALSE, timestamp |-> at]

\* connection 1 is u1's and connection 2 is b's: the logins ran one after
\* the other, each with its history and its welcome message
PairState(b) ==
  /\ conn = [s \in Sockets |-> IF s <= 2 THEN "open" ELSE "new"]
  /\ rooms = [s \in Sockets |->
       IF s = 1 THEN {UserRoom("u1"), AdminRoom}
       ELSE IF s = 2
            THEN {UserRoom(b)} \cup (IF RoleOf[b] = "user" THEN {AdminRoom} ELSE {})
            ELSE {}]
  /\ connectedUsers = [i \in Ids |->
       IF i = "u1" THEN [socketId |-> 1, role |-> "user"]
       ELSE IF i = b THEN [socketId |-> 2, role |-> RoleOf[b]]
       ELSE None]
  /\ users = [i \in Ids |->
       IF i \in {"u1", b}
       THEN [exists |-> TRUE, role |-> RoleOf[i], online |-> TRUE,
             socketId |-> IF i = "u1" THEN 1 ELSE 2, lastSeen |-> 1]
       ELSE [exists |-> FALSE, role |-> "user", online |-> FALSE,
             socketId |-> 0, lastSeen |-> 0]]
  /\ chats = <<WelcomeDoc("u1", 1)>>
             \o (IF RoleOf[b] = "user" THEN <<WelcomeDoc(b, 2)>> ELSE <<>>)
  /\ origin = <<[sock |-> 1, live |-> TRUE, pushed |-> TRUE, reads |-> 0]>>
              \o (IF RoleOf[b] = "user"
                  THEN <<[sock |-> 2, live |-> TRUE, pushed |-> TRUE, reads |-> 0]>>
                  ELSE <<>>)
  /\ out = IF RoleOf[b] = "user"
           THEN Emit({2}, Ev("new-message", AdminSystem, FALSE, 2, <<>>, b))
           ELSE Emit({2}, Ev("previous-messages", b, FALSE, 0, <<>>, NoId))
  /\ tasks = {}
  /\ count = [send |-> 0, welcome |-> Len(chats)]
  /\ crashed = FALSE
  /\ concurrent = {}

InitPair ==
  /\ \E b \in Ids \ {"u1"} : PairState(b)
  /\ budget = Profile(0, MaxSends, 0, 0, 0, 0, 0)

NextPair ==
  \/ \E s \in Sockets, a \in Ids, b \in Ids : SendMessage(s, a, b)
  \/ \E t \in tasks : SendCreated(t)
  \/ \E t \in tasks : SendSaved(t)

SpecPair == InitPair /\ [][NextPair]_vars

(***************************************************************************)
(* Properties                                                              *)
(***************************************************************************)

\* the emits of the last step
Emits == {out[i] : i \in 1 .. Len(out)}

\* the new-message emits of the last step that carry a client's message
MessagePushes ==
  {o \in Emits : o.ev.type = "new-message" /\ o.ev.id \in Ids}

\* connection s logged in as X and the registry now maps X to another handle
Superseded(s, X) ==
  /\ LoggedIn(s, X)
  /\ connectedUsers[X] # None
  /\ connectedUsers[X].socketId # s

\* the visibility rule of the design: admin sees all, sub_admin sees only
\* user, user sees admin and sub_admin
VisibilityPolicy(viewerRole, candidateRole) ==
  \/ viewerRole = "admin"
  \/ viewerRole = "sub_admin" /\ candidateRole = "user"
  \/ viewerRole = "user" /\ candidateRole \in {"admin", "sub_admin"}

\* C1: once identity X has logged in on connection A and then on B, the
\* registry maps X to B, and no send-message or typing event addressed to X
\* pushes anything to A.
C1_SupersededNotRouted ==
  \A o \in Emits :
    (o.ev.type \in {"new-message", "user-typing"} /\ o.ev.id \in Ids
       /\ o.ev.rcv \in Ids /\ o.to \in Sockets)
    => ~Superseded(o.to, o.ev.rcv)

\* C2: a send-message whose Chat.create succeeded puts exactly one
\* new-message carrying the saved message on the sender's own connection.
C2_ExactlyOneConfirmation ==
  \A o \in MessagePushes :
    conn[origin[o.ev.msg].sock] = "open"
    => Cardinality({i \in 1 .. Len(out) :
           /\ out[i].to = origin[o.ev.msg].sock
           /\ out[i].ev.type = "new-message"
           /\ out[i].ev.msg = o.ev.msg}) = 1

\* C3: a message whose receiver had no handle in the registry when it was
\* routed keeps delivered = false; delivered is true only for a message that
\* was pushed to a live connection of its receiver.
C3_DeliveredOnlyIfPushed ==
  \A m \in 1 .. Len(chats) :
    chats[m].delivered => (origin[m].live /\ origin[m].pushed)

\* C4: a send-message from role user to an identity of role user (a pair the
\* visibility policy denies) creates no message record.
C4_PolicyViolationNotPersisted ==
  \A m \in 1 .. Len(chats) :
    chats[m].senderId \in Ids
    => VisibilityPolicy(chats[m].senderRole, RoleOf[chats[m].receiverId])

\* C5: a message is pushed, besides the sender's confirmation, only to the
\* connection registered for its receiverId; no connection logged in with
\* role user receives a message sent by another identity of role user.
C5_PushedOnlyToReceiver ==
  \A o \in MessagePushes :
    /\ \/ o.to = origin[o.ev.msg].sock
       \/ /\ connectedUsers[o.ev.rcv] # None
          /\ connectedUsers[o.ev.rcv].socketId = o.to
    /\ RoleOf[o.ev.id] = "user"
       => \A X \in Ids : (LoggedIn(o.to, X) /\ RoleOf[X] = "user") => X = o.ev.id

\* C6: a user-status-changed event about identity S reaches only connections
\* other than S's own whose role the visibility policy allows to see S.
C6_PresenceOnlyToAllowedViewers ==
  \A o \in Emits :
    o.ev.type = "user-status-changed"
    => /\ ~LoggedIn(o.to, o.ev.id)
       /\ \E X \in Ids : /\ LoggedIn(o.to, X)
                         /\ VisibilityPolicy(RoleOf[X], RoleOf[o.ev.id])

\* C7: when a user's message addressed to an admin that is logged in and
\* connected has been saved and routed, the admin's connection has received it.
C7_AdminReceivesUserMessage ==
  \A o \in MessagePushes :
    (/\ RoleOf[o.ev.id] = "user"
     /\ RoleOf[o.ev.rcv] = "admin"
     /\ connectedUsers[o.ev.rcv] # None
     /\ conn[connectedUsers[o.ev.rcv].socketId] = "open")
    => \E p \in Emits : p.to = connectedUsers[o.ev.rcv].socketId /\ p.ev = o.ev

\* the messages of a history, as a set
Listed(hist) == {hist[i] : i \in 1 .. Len(hist)}

\* the history events of the last step
HistoryPushes ==
  {o \in Emits : o.ev.type \in {"previous-messages", "user-messages"}}

\* C8: the history sent to an identity on login or on get-user-messages
\* contains every message addressed to it that was persisted while it had no
\* handle in the registry.
C8_HistoryHasOfflineMessages ==
  \A o \in HistoryPushes :
    \A m \in 1 .. Len(chats) :
      (chats[m].receiverId = o.ev.id /\ ~origin[m].live)
      => m \in Listed(o.ev.hist)

\* a client's message saved while its receiver was offline is in the history
\* the receiver is sent
C8_Witness ==
  \E o \in HistoryPushes :
    \E m \in 1 .. Len(chats) :
      /\ chats[m].receiverId = o.ev.id
      /\ chats[m].senderId \in Ids
      /\ chats[m].senderId # o.ev.id
      /\ ~origin[m].live
      /\ LoggedIn(o.to, o.ev.id)
      /\ m \in Listed(o.ev.hist)

\* C9: when a user's connection disconnects and the identity then logs in on
\* a new connection, online=false is broadcast before online=true: no login
\* that arrived after the disconnect has broadcast online=true while the
\* disconnect handler has still to broadcast online=false.
C9_OfflineBeforeOnline ==
  \A t \in tasks : \A d \in tasks :
    ~(/\ t.kind = "login" /\ t.pc = "find" /\ t.role = "user"
      /\ d.kind = "disconnect" /\ d.id = t.id /\ d.sock \in t.after)

\* C10: a disconnect on a connection whose handle was superseded by a newer
\* login of identity X leaves the registry entry of X and its User document
\* (online, lastSeen) as they are, starts no update of X and broadcasts no
\* user-status-changed.
C10_StaleDisconnectNoOp ==
  [][\A s \in Sockets : \A X \in Ids :
       (conn[s] = "open" /\ conn'[s] = "closed" /\ Superseded(s, X))
       => /\ connectedUsers'[X] = connectedUsers[X]
          /\ users'[X] = users[X]
          /\ \A d \in tasks' \ tasks : ~(d.kind = "disconnect" /\ d.id = X)
          /\ \A i \in 1 .. Len(out') : out'[i].ev.type # "user-status-changed"]_vars

\* a superseded connection has just disconnected
C10_Witness ==
  \E s \in Sockets : \E X \in Ids :
    /\ conn[s] = "closed"
    /\ out = LogDisconnected(s, "Unknown")
    /\ Superseded(s, X)
    /\ users[X].online

\* C11: when Chat.create of a send-message fails the handler emits
\* message-error and no new-message for it; every new-message pushed carries
\* a message that is already in the Chat collection.
C11_NothingRoutedBeforePersisted ==
  /\ \A o \in Emits :
       o.ev.type = "new-message"
       => /\ o.ev.msg \in 1 .. Len(chats)
          /\ chats[o.ev.msg].senderId = o.ev.id
          /\ chats[o.ev.msg].receiverId = o.ev.rcv
  /\ (\E o \in Emits : o.ev.type = "message-error" /\ o.ev.msg = 0)
     => \A p \in Emits : p.ev.type = "message-error"

\* Chat.create of a send-message has just failed: its sender has the error,
\* the collection has no message of that sender
C11_Witness ==
  \E o \in Emits :
    /\ o.ev.type = "message-error" /\ o.ev.msg = 0
    /\ LoggedIn(o.to, o.ev.id)
    /\ \A m \in 1 .. Len(chats) : chats[m].senderId # o.ev.id
    /\ \A t \in tasks : t.kind # "send"

\* C12: a send-message that ends with message-error has put no confirmation
\* on the sender's connection: the error is emitted only for a send whose
\* message was never routed (a connection that is open now was open when the
\* message was routed, so it has the new-message of every routed message of
\* its own).
C12_ConfirmationXorError ==
  \A o \in Emits :
    o.ev.type = "message-error" => o.ev.msg = 0

\* C13: no database failure in a handler brings the process down.
C13_NeverCrashes == ~crashed

\* C14: a mark-as-read applied again, after whatever sends and reads came in
\* between, changes nothing: every message a mark-as-read has named is still
\* read, so the update of the same ids is the identity on the collection.
C14_MarkAsReadIdempotent ==
  UpdateMany(chats, {m \in 1 .. Len(chats) : origin[m].reads > 0}) = chats

\* a message was named by two mark-as-read events, the save of its send
\* handler has run as well, and a later message was stored
C14_Witness ==
  \E m \in 1 .. Len(chats) :
    /\ origin[m].reads = 2
    /\ chats[m].read /\ chats[m].delivered
    /\ m < Len(chats)

\* C15: the read flag of a message changes only by a mark-as-read of its
\* receiver: a step that changes the flag of message m is taken while a
\* connection of m's receiverId is open to issue it.
C15_ReadOnlyByReceiver ==
  [][\A m \in 1 .. Len(chats) :
       chats'[m].read # chats[m].read
       => \E s \in Sockets : conn[s] = "open" /\ LoggedIn(s, chats[m].receiverId)]_vars

\* C16: a message from a to b and a message from b to a are stored under the
\* same roomId.
C16_ConversationIdSymmetric ==
  \A i \in 1 .. Len(chats) : \A j \in 1 .. Len(chats) :
    (/\ chats[i].senderId = chats[j].receiverId
     /\ chats[i].receiverId = chats[j].senderId)
    => chats[i].roomId = chats[j].roomId

\* C17: delivered and read of a stored message never go from true to false,
\* and no stored message disappears.
C17_FlagsMonotone ==
  [][/\ Len(chats') >= Len(chats)
     /\ \A m \in 1 .. Len(chats) :
          /\ chats[m].delivered => chats'[m].delivered
          /\ chats[m].read => chats'[m].read]_vars

\* a message was marked read while its send handler is waiting for the
\* mark-delivered save, which writes the document next
C17_Witness ==
  \E t \in tasks :
    /\ t.kind = "send" /\ t.pc = "save"
    /\ chats[t.msg].read /\ ~chats[t.msg].delivered
    /\ origin[t.msg].reads > 0

\* C18: the messages of one sender in one conversation are stored, and so
\* pushed, in the order their send-message events arrived (the order of
\* their timestamps).
C18_PerSenderOrder ==
  \A i \in 1 .. Len(chats) : \A j \in 1 .. Len(chats) :
    (/\ i < j
     /\ chats[i].senderId \in Ids
     /\ chats[i].senderId = chats[j].senderId
     /\ chats[i].roomId = chats[j].roomId)
    => chats[i].timestamp < chats[j].timestamp

\* the login and disconnect handlers in progress
PresenceTasks == {t \in tasks : t.kind \in {"login", "disconnect"}}

\* C19: once the disconnect handler and the login handlers of a connection
\* have finished, connectedUsers holds no entry with the socketId of that
\* (closed) connection.
C19_NoHandleOfClosedConnection ==
  \A id \in Ids :
    (/\ connectedUsers[id] # None
     /\ conn[connectedUsers[id].socketId] = "closed")
    => \E t \in PresenceTasks : t.sock = connectedUsers[id].socketId

\* C20: with no login or disconnect handler in progress, the User document
\* of an identity has online = true exactly when connectedUsers has an entry
\* for it.
C20_OnlineIffRegistered ==
  (PresenceTasks = {} /\ ~crashed)
  => \A id \in Ids : users[id].online <=> connectedUsers[id] # None

\* the login handlers of identity X in progress
LoginsOf(X) == {t \in tasks : t.kind = "login" /\ t.id = X}

\* C21: after two logins of identity X that were in progress at the same
\* time on different connections have both completed, the registry maps X to
\* the handle whose login wrote it last, and what is addressed to X is
\* pushed, of X's connections, to that handle only (and to the sender's own
\* connection, as confirmation).
C21_LastLoginWinsRouting ==
  \A X \in concurrent :
    (LoginsOf(X) = {} /\ connectedUsers[X] # None)
    => \A o \in Emits :
         (/\ o.ev.type \in {"new-message", "user-typing"}
          /\ o.ev.id \in Ids
          /\ o.ev.rcv = X
          /\ o.to \in Sockets
          /\ LoggedIn(o.to, X))
         => \/ o.to = connectedUsers[X].socketId
            \/ o.ev.type = "new-message" /\ o.to = origin[o.ev.msg].sock
====
